---- MODULE Spec2Model ----
(***************************************************************************)
(* Sub-Zero enterprise core: the decision engine (make_decision), and the  *)
(* escalation workflow over the decisions / escalations tables.            *)
(*                                                                         *)
(* Number representation.  The source computes with Python floats; the     *)
(* model uses exact fixed point:                                           *)
(*   keystone_score              thousandths   (0.7  -> 700)               *)
(*   utilization_rate            hundredths    (0.3  -> 30), the scale of  *)
(*                               ROUND(.., 2) in the subscription_health   *)
(*                               view                                      *)
(*   confidence, risk_score      ten-thousandths (0.95 -> 9500), so that   *)
(*                               0.2 + keystone_score * 0.3 is exact       *)
(* Days are integers counted from day 0 of the run.                        *)
(***************************************************************************)
EXTENDS Integers, Sequences, FiniteSets, TLC

VARIABLES
    f,            \* the input handed to the pure function run (DecisionFactors, counts)
    result,       \* what the function returned for f, in call order
    now,          \* CURRENT_DATE, in days
    sub,          \* the tool_subscriptions row under analysis
    decisions,    \* decisions table rows of that subscription, in insertion order
    escalations,  \* escalations table rows, in insertion order
    workers,      \* scheduler / engine invocations in flight: what each read
    tool_dependencies,  \* tool_dependencies rows (edges) of the graph queried
    dependency_chain,   \* rows the recursive CTE dependency_chain has produced
    working,            \* the CTE's working table: rows of the last iteration
    iteration,          \* how many terms of the CTE have been evaluated
    saas_tool           \* the saas_tools row whose keystone score is recomputed

graphVars == <<tool_dependencies, dependency_chain, working, iteration, saas_tool>>

vars == <<f, result, now, sub, decisions, escalations, workers,
          tool_dependencies, dependency_chain, working, iteration, saas_tool>>

\* A saas_tools row as inserted: is_keystone DEFAULT FALSE, keystone_score
\* DEFAULT 0 (the score as the fraction num / den).
DefaultTool == [is_keystone |-> FALSE, keystone_score |-> [num |-> 0, den |-> 1]]

\* The graph variables of a run that does not query the dependency graph.
NoGraph ==
    /\ tool_dependencies = {}
    /\ dependency_chain = {}
    /\ working = {}
    /\ iteration = 0
    /\ saas_tool = DefaultTool

\* None / SQL NULL of a nullable integer or date (all of which are >= 0 here).
NULL == -1

(***************************************************************************)
(* Bounds of the model.                                                    *)
(***************************************************************************)
MaxSeats == 14
MaxDay == 10
MaxDecisions == 2
MaxResponses == 1
MaxDayConc == 4
\* Tools and tool_dependencies rows of the dependency graph.
MaxTools == 3
MaxEdges == 4
\* Users and tools of the organisation whose keystone scores are computed.
MaxCount == 4
\* Tools of the long dependency chain.
MaxChain == 7
\* Rows inserted into tool_dependencies.
MaxRows == 3
\* Days until renewal classified, on either side of today.
MaxUrgencyDays == 70

(***************************************************************************)
(* Decision engine: docs/ENTERPRISE_ARCHITECTURE.md, make_decision.        *)
(***************************************************************************)
KEEP == "keep"
DOWNSIZE == "downsize"
REVIEW == "review"
CANCEL == "cancel"
DecisionType == {KEEP, DOWNSIZE, REVIEW, CANCEL}

\* The first argument, whatever the second.
MaxFirst(a, b) == a

Max(a, b) == IF a >= b THEN a ELSE b

\* Python int(x) of the exact quotient n / d (d > 0): truncation toward zero.
TruncDiv(n, d) == IF n >= 0 THEN n \div d ELSE -((-n) \div d)

\* A utilization that counts a subscription without paid seats as fully used.
UtilizationRateFull(active, paid) ==
    IF paid > 0 THEN (200 * active + paid) \div (2 * paid) ELSE 100

\* subscription_health.utilization_rate: ROUND(active / paid, 2), 0 when
\* paid_seats is not positive; in hundredths, ROUND rounding half up.
UtilizationRate(active, paid) ==
    IF paid > 0 THEN (200 * active + paid) \div (2 * paid) ELSE 0

\* A Decision that drops its factors.
DecisionNoFactors(type, confidence, risk_score, savings_potential, recommended_seats, factors) ==
    [type |-> type, confidence |-> confidence, risk_score |-> risk_score,
     risk_ulps |-> 0,
     savings_potential |-> savings_potential,
     recommended_seats |-> recommended_seats, factors |-> {}]

\* risk_score is a Python float.  Its decimal value is kept in
\* ten-thousandths; risk_ulps is the distance, in units in the last place,
\* of the float from the double nearest that decimal value (0 for a literal).
Decision(type, confidence, risk_score, savings_potential, recommended_seats, factors) ==
    [type |-> type, confidence |-> confidence, risk_score |-> risk_score,
     risk_ulps |-> 0,
     savings_potential |-> savings_potential,
     recommended_seats |-> recommended_seats, factors |-> factors]

\* The rounding of 0.2 + (keystone_score * 0.3) in IEEE double arithmetic,
\* for keystone scores that are multiples of 0.05 up to 0.7: the sum is one
\* unit in the last place above the nearest double of the decimal result at
\* 0.05, 0.3 and 0.7 (0.2 + 0.7 * 0.3 = 0.41000000000000003) and exact
\* elsewhere.
CancelRiskUlps(keystone_score) ==
    IF keystone_score \in {50, 300, 700} THEN 1 ELSE 0

\* The CANCEL risk without the keystone term.
CancelRiskFlat(keystone_score) == 2000

\* risk_score = 0.2 + (f.keystone_score * 0.3), in ten-thousandths.
CancelRisk(keystone_score) == 2000 + keystone_score * 3

\* A variant of make_decision that tests the owner (rule 2) before the
\* keystone score (rule 1).
make_decision_owner_first(x) ==
    IF ~x.owner_active
    THEN Decision(REVIEW, 8000, 5000, 0, NULL, {"owner_active"})
    ELSE IF x.keystone_score > 700
    THEN Decision(KEEP, 9500, 9000, 0, NULL, {"keystone_score"})
    ELSE IF x.active_users = 0 /\ x.last_activity_days > 60
    THEN [Decision(CANCEL, 8500, CancelRisk(x.keystone_score), x.annual_cost, NULL,
                   {"active_users", "last_activity_days"})
            EXCEPT !.risk_ulps = CancelRiskUlps(x.keystone_score)]
    ELSE IF x.utilization_rate < 30 /\ x.paid_seats > 5
    THEN LET optimal_seats == Max(x.active_users + 2, 5)
         IN Decision(DOWNSIZE, 7500, 3000,
                     TruncDiv((x.paid_seats - optimal_seats) * x.annual_cost, x.paid_seats),
                     optimal_seats,
                     {"utilization_rate", "active_users", "paid_seats"})
    ELSE IF x.utilization_rate < 50
    THEN Decision(REVIEW, 6000, 4000, TruncDiv(x.annual_cost * 3, 10), NULL,
                  {"utilization_rate", "renewal_days"})
    ELSE IF x.renewal_days < 30 /\ x.utilization_rate < 70
    THEN Decision(REVIEW, 6500, 3500, TruncDiv(x.annual_cost * 2, 10), NULL,
                  {"renewal_days", "utilization_rate"})
    ELSE Decision(KEEP, 7000, 1000, 0, NULL, {"utilization_rate", "keystone_score"})

\* A variant of make_decision that tests severe underutilization (rule 4)
\* before zero usage (rule 3).
make_decision_rule4_first(x) ==
    IF x.keystone_score > 700
    THEN Decision(KEEP, 9500, 9000, 0, NULL, {"keystone_score"})
    ELSE IF ~x.owner_active
    THEN Decision(REVIEW, 8000, 5000, 0, NULL, {"owner_active"})
    ELSE IF x.utilization_rate < 30 /\ x.paid_seats > 5
    THEN LET optimal_seats == Max(x.active_users + 2, 5)
         IN Decision(DOWNSIZE, 7500, 3000,
                     TruncDiv((x.paid_seats - optimal_seats) * x.annual_cost, x.paid_seats),
                     optimal_seats,
                     {"utilization_rate", "active_users", "paid_seats"})
    ELSE IF x.active_users = 0 /\ x.last_activity_days > 60
    THEN [Decision(CANCEL, 8500, CancelRisk(x.keystone_score), x.annual_cost, NULL,
                   {"active_users", "last_activity_days"})
            EXCEPT !.risk_ulps = CancelRiskUlps(x.keystone_score)]
    ELSE IF x.utilization_rate < 50
    THEN Decision(REVIEW, 6000, 4000, TruncDiv(x.annual_cost * 3, 10), NULL,
                  {"utilization_rate", "renewal_days"})
    ELSE IF x.renewal_days < 30 /\ x.utilization_rate < 70
    THEN Decision(REVIEW, 6500, 3500, TruncDiv(x.annual_cost * 2, 10), NULL,
                  {"renewal_days", "utilization_rate"})
    ELSE Decision(KEEP, 7000, 1000, 0, NULL, {"utilization_rate", "keystone_score"})

\* A variant of make_decision whose rule 6 tests the renewal date alone.
make_decision_renewal_only(x) ==
    IF x.keystone_score > 700
    THEN Decision(KEEP, 9500, 9000, 0, NULL, {"keystone_score"})
    ELSE IF ~x.owner_active
    THEN Decision(REVIEW, 8000, 5000, 0, NULL, {"owner_active"})
    ELSE IF x.active_users = 0 /\ x.last_activity_days > 60
    THEN [Decision(CANCEL, 8500, CancelRisk(x.keystone_score), x.annual_cost, NULL,
                   {"active_users", "last_activity_days"})
            EXCEPT !.risk_ulps = CancelRiskUlps(x.keystone_score)]
    ELSE IF x.utilization_rate < 30 /\ x.paid_seats > 5
    THEN LET optimal_seats == Max(x.active_users + 2, 5)
         IN Decision(DOWNSIZE, 7500, 3000,
                     TruncDiv((x.paid_seats - optimal_seats) * x.annual_cost, x.paid_seats),
                     optimal_seats,
                     {"utilization_rate", "active_users", "paid_seats"})
    ELSE IF x.utilization_rate < 50
    THEN Decision(REVIEW, 6000, 4000, TruncDiv(x.annual_cost * 3, 10), NULL,
                  {"utilization_rate", "renewal_days"})
    ELSE IF x.renewal_days < 30
    THEN Decision(REVIEW, 6500, 3500, TruncDiv(x.annual_cost * 2, 10), NULL,
                  {"renewal_days", "utilization_rate"})
    ELSE Decision(KEEP, 7000, 1000, 0, NULL, {"utilization_rate", "keystone_score"})

\* A variant of make_decision whose rule 6 takes only a renewal date that is
\* still ahead.
make_decision_future_renewal(x) ==
    IF x.keystone_score > 700
    THEN Decision(KEEP, 9500, 9000, 0, NULL, {"keystone_score"})
    ELSE IF ~x.owner_active
    THEN Decision(REVIEW, 8000, 5000, 0, NULL, {"owner_active"})
    ELSE IF x.active_users = 0 /\ x.last_activity_days > 60
    THEN [Decision(CANCEL, 8500, CancelRisk(x.keystone_score), x.annual_cost, NULL,
                   {"active_users", "last_activity_days"})
            EXCEPT !.risk_ulps = CancelRiskUlps(x.keystone_score)]
    ELSE IF x.utilization_rate < 30 /\ x.paid_seats > 5
    THEN LET optimal_seats == Max(x.active_users + 2, 5)
         IN Decision(DOWNSIZE, 7500, 3000,
                     TruncDiv((x.paid_seats - optimal_seats) * x.annual_cost, x.paid_seats),
                     optimal_seats,
                     {"utilization_rate", "active_users", "paid_seats"})
    ELSE IF x.utilization_rate < 50
    THEN Decision(REVIEW, 6000, 4000, TruncDiv(x.annual_cost * 3, 10), NULL,
                  {"utilization_rate", "renewal_days"})
    ELSE IF x.renewal_days >= 0 /\ x.renewal_days < 30 /\ x.utilization_rate < 70
    THEN Decision(REVIEW, 6500, 3500, TruncDiv(x.annual_cost * 2, 10), NULL,
                  {"renewal_days", "utilization_rate"})
    ELSE Decision(KEEP, 7000, 1000, 0, NULL, {"utilization_rate", "keystone_score"})

\* A variant of make_decision that tests zero usage (rule 3) before the
\* keystone score and the owner.
make_decision_zero_usage_first(x) ==
    IF x.active_users = 0 /\ x.last_activity_days > 60
    THEN [Decision(CANCEL, 8500, CancelRisk(x.keystone_score), x.annual_cost, NULL,
                   {"active_users", "last_activity_days"})
            EXCEPT !.risk_ulps = CancelRiskUlps(x.keystone_score)]
    ELSE IF x.keystone_score > 700
    THEN Decision(KEEP, 9500, 9000, 0, NULL, {"keystone_score"})
    ELSE IF ~x.owner_active
    THEN Decision(REVIEW, 8000, 5000, 0, NULL, {"owner_active"})
    ELSE IF x.utilization_rate < 30 /\ x.paid_seats > 5
    THEN LET optimal_seats == Max(x.active_users + 2, 5)
         IN Decision(DOWNSIZE, 7500, 3000,
                     TruncDiv((x.paid_seats - optimal_seats) * x.annual_cost, x.paid_seats),
                     optimal_seats,
                     {"utilization_rate", "active_users", "paid_seats"})
    ELSE IF x.utilization_rate < 50
    THEN Decision(REVIEW, 6000, 4000, TruncDiv(x.annual_cost * 3, 10), NULL,
                  {"utilization_rate", "renewal_days"})
    ELSE IF x.renewal_days < 30 /\ x.utilization_rate < 70
    THEN Decision(REVIEW, 6500, 3500, TruncDiv(x.annual_cost * 2, 10), NULL,
                  {"renewal_days", "utilization_rate"})
    ELSE Decision(KEEP, 7000, 1000, 0, NULL, {"utilization_rate", "keystone_score"})

\* make_decision: a sequence of early returns, one per rule.  The factors
\* dict is modelled by its key set.
make_decision(x) ==
    IF x.keystone_score > 700
    THEN Decision(KEEP, 9500, 9000, 0, NULL, {"keystone_score"})
    ELSE IF ~x.owner_active
    THEN Decision(REVIEW, 8000, 5000, 0, NULL, {"owner_active"})
    ELSE IF x.active_users = 0 /\ x.last_activity_days > 60
    THEN [Decision(CANCEL, 8500, CancelRisk(x.keystone_score), x.annual_cost, NULL,
                   {"active_users", "last_activity_days"})
            EXCEPT !.risk_ulps = CancelRiskUlps(x.keystone_score)]
    ELSE IF x.utilization_rate < 30 /\ x.paid_seats > 5
    THEN LET optimal_seats == Max(x.active_users + 2, 5)
         IN Decision(DOWNSIZE, 7500, 3000,
                     TruncDiv((x.paid_seats - optimal_seats) * x.annual_cost, x.paid_seats),
                     optimal_seats,
                     {"utilization_rate", "active_users", "paid_seats"})
    ELSE IF x.utilization_rate < 50
    THEN Decision(REVIEW, 6000, 4000, TruncDiv(x.annual_cost * 3, 10), NULL,
                  {"utilization_rate", "renewal_days"})
    ELSE IF x.renewal_days < 30 /\ x.utilization_rate < 70
    THEN Decision(REVIEW, 6500, 3500, TruncDiv(x.annual_cost * 2, 10), NULL,
                  {"renewal_days", "utilization_rate"})
    ELSE Decision(KEEP, 7000, 1000, 0, NULL, {"utilization_rate", "keystone_score"})

\* The DecisionFactors snapshot of a subscription with the given counts.
DecisionFactors(active, paid, last_activity, renewal, cost, keystone, deps, owner) ==
    [active_users |-> active, paid_seats |-> paid,
     utilization_rate |-> UtilizationRate(active, paid),
     last_activity_days |-> last_activity, renewal_days |-> renewal,
     annual_cost |-> cost, keystone_score |-> keystone,
     dependency_count |-> deps, owner_active |-> owner]

\* Inputs of the pure-function runs: every threshold of the rules has a
\* value on each side of it.
KeystoneScores == {0, 100, 700, 701, 1000}
LastActivityDays == {5, 60, 61, 90}
RenewalDays == {-5, 18, 29, 30}
AnnualCosts == {0, 120000}

FactorSpace ==
    { DecisionFactors(a, p, l, r, c, k, 0, o) :
        a \in 0..MaxSeats, p \in 0..MaxSeats, l \in LastActivityDays,
        r \in RenewalDays, c \in AnnualCosts, k \in KeystoneScores,
        o \in BOOLEAN }

NoSub == [none |-> TRUE]

InitDecide ==
    /\ f \in FactorSpace
    /\ result = <<>>
    /\ now = 0
    /\ sub = NoSub
    /\ decisions = <<>>
    /\ escalations = <<>>
    /\ workers = <<>>
    /\ NoGraph

\* One call make_decision(f).
Decide ==
    /\ result = <<>>
    /\ result' = <<make_decision(f)>>
    /\ UNCHANGED graphVars
    /\ UNCHANGED <<f, now, sub, decisions, escalations, workers>>

NextDecide == Decide

SpecDecide == InitDecide /\ [][NextDecide]_vars

(***************************************************************************)
(* Persistence: database/schema_enterprise.sql.  One subscription is       *)
(* followed; its decisions and their escalations are the table rows, kept  *)
(* in insertion order, a row's index standing for its UUID primary key.    *)
(***************************************************************************)
PENDING == "pending"
APPROVED == "approved"
REJECTED == "rejected"
EXECUTED == "executed"
EXPIRED == "expired"
DecisionStatus == {PENDING, APPROVED, REJECTED, EXECUTED, EXPIRED}

SNOOZED == "snoozed"
DELEGATED == "delegated"
ResponseType == {APPROVED, REJECTED, SNOOZED, DELEGATED}
NoResponse == "NULL"

SENT == "sent"
RESPONDED == "responded"

\* tool_subscriptions row, with the columns of org_users, saas_tools and
\* tool_access that the engine joins to it.
Subscription(paid, active, cents, renewal, owner, keystone, last_activity) ==
    [paid_seats |-> paid, active_seats |-> active, amount_cents |-> cents,
     renewal_date |-> renewal, owner_active |-> owner,
     keystone_score |-> keystone, last_activity_days |-> last_activity]

\* A day count that includes the renewal day itself.
DaysUntilRenewalInclusive(s, t) == s.renewal_date - t + 1

\* subscription_health.days_until_renewal: renewal_date - CURRENT_DATE, NULL
\* for a subscription without a renewal date (the column is nullable).
DaysUntilRenewal(s, t) ==
    IF s.renewal_date = NULL THEN NULL ELSE s.renewal_date - t

\* The renewal date has passed; never so for a subscription without one.
RenewalPassed(s, t) == s.renewal_date # NULL /\ DaysUntilRenewal(s, t) < 0

\* The factors of subscription s on day t (billing_cycle yearly, so that
\* annual_cost is amount_cents).
FactorsOf(s, t) ==
    DecisionFactors(s.active_seats, s.paid_seats, s.last_activity_days,
                    DaysUntilRenewal(s, t), s.amount_cents, s.keystone_score,
                    0, s.owner_active)

\* INSERT INTO decisions: the table has a primary key on id and no other
\* uniqueness; idx_decisions_subscription is a plain index.
InsertDecision(rows, row) == Append(rows, row)

\* INSERT INTO escalations: the table has a primary key on id and no other
\* uniqueness.
InsertEscalation(rows, row) == Append(rows, row)

\* A decisions row made of what make_decision returned; status takes the
\* column default.
DecisionRow(dec, s) ==
    [decision_type |-> dec.type, confidence |-> dec.confidence,
     risk_score |-> dec.risk_score,
     savings_potential_cents |-> dec.savings_potential,
     current_seats |-> s.paid_seats,
     recommended_seats |-> dec.recommended_seats,
     factors |-> dec.factors, status |-> PENDING, due_date |-> s.renewal_date]

(***************************************************************************)
(* ESCALATION_CONFIG.                                                      *)
(***************************************************************************)
MaxLevel == 4
MinCostCents == 500000
MaxRenewalDays == 7

\* A configuration without wait period.
WaitDaysNone(level) == 0

\* ESCALATION_CONFIG[level_n]["wait_days"], n in 1..3.
WaitDays(level) == 3

\* ESCALATION_CONFIG[level_n]["channels"].
Channels(level) ==
    CASE level = 1 -> {"in_app", "email"}
      [] level = 2 -> {"email", "slack"}
      [] level = 3 -> {"email"}
      [] level = 4 -> {"whatsapp", "sms"}

\* Level-4 conditions without the cost floor.
Level4AnyCost(s, t) == DaysUntilRenewal(s, t) <= MaxRenewalDays

\* Level 4 withheld whatever the subscription.
Level4Never(s, t) == FALSE

\* ESCALATION_CONFIG[level_4]["conditions"].
Level4Eligible(s, t) ==
    /\ s.amount_cents >= MinCostCents
    /\ s.renewal_date # NULL
    /\ DaysUntilRenewal(s, t) <= MaxRenewalDays

\* A row inserted without its level, which then takes the column default.
EscalationRowDefaultLevel(d, level, t) ==
    [decision_id |-> d, level |-> 1, channel |-> Channels(level),
     scheduled_at |-> t, sent_at |-> NULL, responded_at |-> NULL,
     response_type |-> NoResponse, status |-> PENDING]

\* An escalations row of the given level, created on day t; the timestamps
\* of sending and response not yet set, status the column default.
EscalationRow(d, level, t) ==
    [decision_id |-> d, level |-> level, channel |-> Channels(level),
     scheduled_at |-> t, sent_at |-> NULL, responded_at |-> NULL,
     response_type |-> NoResponse, status |-> PENDING]

(***************************************************************************)
(* Escalation state machine: advance(decision, now).                       *)
(***************************************************************************)
EscalationsOf(escs, d) == { i \in DOMAIN escs : escs[i].decision_id = d }

LevelsOf(escs, d) == { escs[i].level : i \in EscalationsOf(escs, d) }

SetMax(S) == CHOOSE m \in S : \A n \in S : n <= m

\* The level the decision is at; 0 when it has no escalation.
CurrentLevel(escs, d) ==
    IF EscalationsOf(escs, d) = {} THEN 0 ELSE SetMax(LevelsOf(escs, d))

\* The row of the current level (the latest one, should there be several).
CurrentEscalation(escs, d) ==
    escs[SetMax({ i \in EscalationsOf(escs, d) : escs[i].level = CurrentLevel(escs, d) })]

HasResponse(escs, d) ==
    \E i \in EscalationsOf(escs, d) : escs[i].responded_at # NULL

\* The start of a level's wait period: sent_at, or scheduled_at if never sent.
WaitStart(e) == IF e.sent_at # NULL THEN e.sent_at ELSE e.scheduled_at

NoAction == [kind |-> "none", level |-> 0]
ExpireAction == [kind |-> "expire", level |-> 0]
CreateAction(level) == [kind |-> "create", level |-> level]

\* advance() looking at the response of the current level only.
AdvanceActionCurrentOnly(d, decs, escs, s, t) ==
    IF decs[d].status # PENDING
    THEN NoAction
    ELSE IF EscalationsOf(escs, d) # {} /\ CurrentEscalation(escs, d).responded_at # NULL
    THEN NoAction
    ELSE IF RenewalPassed(s, t)
    THEN ExpireAction
    ELSE IF EscalationsOf(escs, d) = {}
    THEN NoAction
    ELSE LET cur == CurrentEscalation(escs, d)
         IN IF cur.level >= MaxLevel
            THEN NoAction
            ELSE IF t - WaitStart(cur) < WaitDays(cur.level)
            THEN NoAction
            ELSE IF cur.level + 1 = MaxLevel /\ ~Level4Eligible(s, t)
            THEN NoAction
            ELSE CreateAction(cur.level + 1)

\* What advance(decision, now) decides on a snapshot of the tables:
\*  - nothing for a decision that is no longer pending;
\*  - nothing once a response was recorded at any level;
\*  - expiry once the renewal date has passed;
\*  - the next level when the current level's wait period has elapsed, level
\*    4 only under its conditions; nothing otherwise.
AdvanceAction(d, decs, escs, s, t) ==
    IF decs[d].status # PENDING
    THEN NoAction
    ELSE IF HasResponse(escs, d)
    THEN NoAction
    ELSE IF RenewalPassed(s, t)
    THEN ExpireAction
    ELSE IF EscalationsOf(escs, d) = {}
    THEN NoAction
    ELSE LET cur == CurrentEscalation(escs, d)
         IN IF cur.level >= MaxLevel
            THEN NoAction
            ELSE IF t - WaitStart(cur) < WaitDays(cur.level)
            THEN NoAction
            ELSE IF cur.level + 1 = MaxLevel /\ ~Level4Eligible(s, t)
            THEN NoAction
            ELSE CreateAction(cur.level + 1)

\* The decisions table after the action is applied on day t ...
DecisionsAfter(act, d, decs) ==
    IF act.kind = "expire" /\ decs[d].status = PENDING
    THEN [decs EXCEPT ![d].status = EXPIRED]
    ELSE decs

\* ... and the escalations table.
EscalationsAfter(act, d, escs, t) ==
    IF act.kind = "create"
    THEN InsertEscalation(escs, EscalationRow(d, act.level, t))
    ELSE escs

\* Every decision spawns an escalation.
NeedsEscalationAlways(dec) == TRUE

\* Every non-KEEP decision spawns an escalation.
NeedsEscalation(dec) == dec.type # KEEP

HasPending(decs) == \E d \in DOMAIN decs : decs[d].status = PENDING

\* The response type taken over as the decision's status.
StatusAfterResponseVerbatim(status, rtype) == rtype

\* The status a response leaves the decision in: approved and rejected are
\* decision statuses; snoozed and delegated leave it pending.
StatusAfterResponse(status, rtype) ==
    IF rtype \in {APPROVED, REJECTED} THEN rtype ELSE status

(***************************************************************************)
(* Sequential runs: every handler call runs to completion.                 *)
(***************************************************************************)
\* The subscriptions followed, one per decision type: one too cheap for
\* level 4, one that renews too late for level 4 on the day its level-3 wait
\* can first end (day 9) and meets the conditions a day later, one whose
\* renewal date passes before level 4 can be reached, and one that is kept.
SubSpace ==
    { Subscription(6, 0, MinCostCents - 1, 10, TRUE, 100, 90),  \* CANCEL
      Subscription(8, 1, MinCostCents, 17, TRUE, 100, 5),       \* DOWNSIZE
      Subscription(8, 4, MinCostCents, 8, FALSE, 100, 5),       \* REVIEW
      Subscription(8, 8, MinCostCents, 10, TRUE, 100, 5) }      \* KEEP

Init ==
    /\ sub \in SubSpace
    /\ f = FactorsOf(sub, 0)
    /\ result = <<>>
    /\ now = 0
    /\ decisions = <<>>
    /\ escalations = <<>>
    /\ workers = <<>>
    /\ NoGraph

\* The clock: a day passes.
Tick ==
    /\ now < MaxDay
    /\ now' = now + 1
    /\ UNCHANGED graphVars
    /\ UNCHANGED <<f, result, sub, decisions, escalations, workers>>

\* A decision-engine run for the subscription: a no-op while a decision is
\* pending; otherwise the decision is stored and, unless it is KEEP, its
\* level-1 escalation is created.  A sequential run follows the
\* subscription's first decision: engine runs after that decision was
\* resolved are not followed.
RunEngine ==
    /\ decisions = <<>> \/ HasPending(decisions)
    /\ IF HasPending(decisions)
       THEN UNCHANGED <<decisions, escalations>>
       ELSE LET dec == make_decision(FactorsOf(sub, now))
                d == Len(decisions) + 1
            IN /\ decisions' = InsertDecision(decisions, DecisionRow(dec, sub))
               /\ escalations' =
                     IF NeedsEscalation(dec)
                     THEN InsertEscalation(escalations, EscalationRow(d, 1, now))
                     ELSE escalations
    /\ UNCHANGED graphVars
    /\ UNCHANGED <<f, result, now, sub, workers>>

\* The scheduler calls advance(d).
Advance(d) ==
    /\ d \in DOMAIN decisions
    /\ LET act == AdvanceAction(d, decisions, escalations, sub, now)
       IN /\ decisions' = DecisionsAfter(act, d, decisions)
          /\ escalations' = EscalationsAfter(act, d, escalations, now)
    /\ UNCHANGED graphVars
    /\ UNCHANGED <<f, result, now, sub, workers>>

\* The notification sender reports escalation i as sent.  Only the sending
\* of a decision's current level is followed: nothing reads sent_at of a
\* level that has a successor.
MarkSent(i) ==
    /\ i \in DOMAIN escalations
    /\ escalations[i].status = PENDING
    /\ decisions[escalations[i].decision_id].status = PENDING
    /\ escalations[i].level = CurrentLevel(escalations, escalations[i].decision_id)
    /\ escalations' = [escalations EXCEPT ![i].sent_at = now, ![i].status = SENT]
    /\ UNCHANGED graphVars
    /\ UNCHANGED <<f, result, now, sub, decisions, workers>>

\* A human response rtype is recorded on escalation i.
Respond(i, rtype) ==
    /\ i \in DOMAIN escalations
    /\ escalations[i].responded_at = NULL
    /\ Cardinality({ j \in DOMAIN escalations : escalations[j].responded_at # NULL })
          < MaxResponses
    /\ LET d == escalations[i].decision_id
       IN /\ decisions[d].status = PENDING
          /\ decisions' =
                [decisions EXCEPT ![d].status = StatusAfterResponse(@, rtype)]
    /\ escalations' = [escalations EXCEPT ![i].response_type = rtype,
                                          ![i].responded_at = now,
                                          ![i].status = RESPONDED]
    /\ UNCHANGED graphVars
    /\ UNCHANGED <<f, result, now, sub, workers>>

Next ==
    \/ Tick
    \/ RunEngine
    \/ \E d \in DOMAIN decisions : Advance(d)
    \/ \E i \in DOMAIN escalations : MarkSent(i)
    \/ \E i \in DOMAIN escalations, rtype \in ResponseType : Respond(i, rtype)

Spec == Init /\ [][Next]_vars

\* Sequential runs under a scheduler that keeps calling advance() and a clock
\* that keeps advancing, for a subscription that reaches level 4 before its
\* renewal date passes, one whose renewal date passes at level 3, and one
\* without a renewal date.  Responses are a human's: nothing forces them.
LiveSubSpace ==
    { Subscription(8, 1, MinCostCents, MaxDay - 1, TRUE, 100, 5),
      Subscription(8, 4, MinCostCents, 8, FALSE, 100, 5),
      Subscription(6, 0, MinCostCents, NULL, TRUE, 100, 90) }

InitLive ==
    /\ sub \in LiveSubSpace
    /\ f = FactorsOf(sub, 0)
    /\ result = <<>>
    /\ now = 0
    /\ decisions = <<>>
    /\ escalations = <<>>
    /\ workers = <<>>
    /\ NoGraph

SpecLive ==
    /\ InitLive
    /\ [][Next]_vars
    /\ WF_vars(Tick)
    /\ WF_vars(\E d \in DOMAIN decisions : Advance(d))

(***************************************************************************)
(* Overlapping runs: the scheduler and the engine may be invoked again     *)
(* while an earlier invocation is between its read of the tables and its   *)
(* write (a duplicate cron fire, a cron run and a manual re-analyze).      *)
(* There is no lock in the core, and the tables carry no uniqueness beyond *)
(* their primary keys, so an invocation is two steps: it reads a snapshot  *)
(* and decides, then writes what it decided.                               *)
(***************************************************************************)
Workers == {1, 2}

Idle == [op |-> "idle", d |-> 0, act |-> NoAction, dec |-> <<>>]

InitConc ==
    /\ sub \in SubSpace
    /\ f = FactorsOf(sub, 0)
    /\ result = <<>>
    /\ now = 0
    /\ decisions = <<>>
    /\ escalations = <<>>
    /\ workers = [w \in Workers |-> Idle]
    /\ NoGraph

\* The clock of the overlapping runs, which are followed over the first
\* wait period.
TickConc ==
    /\ now < MaxDayConc
    /\ now' = now + 1
    /\ UNCHANGED graphVars
    /\ UNCHANGED <<f, result, sub, decisions, escalations, workers>>

\* advance(d), first half: read the tables and decide.
AdvanceRead(w, d) ==
    /\ workers[w] = Idle
    /\ d \in DOMAIN decisions
    /\ workers' = [workers EXCEPT ![w] =
                      [op |-> "advance", d |-> d,
                       act |-> AdvanceAction(d, decisions, escalations, sub, now),
                       dec |-> <<>>]]
    /\ UNCHANGED graphVars
    /\ UNCHANGED <<f, result, now, sub, decisions, escalations>>

\* advance(d), second half: write what was decided.
AdvanceWrite(w) ==
    /\ workers[w].op = "advance"
    /\ decisions' = DecisionsAfter(workers[w].act, workers[w].d, decisions)
    /\ escalations' = EscalationsAfter(workers[w].act, workers[w].d, escalations, now)
    /\ workers' = [workers EXCEPT ![w] = Idle]
    /\ UNCHANGED graphVars
    /\ UNCHANGED <<f, result, now, sub>>

\* An engine run, first half: look for a pending decision and, finding
\* none, evaluate the subscription.
EngineRead(w) ==
    /\ workers[w] = Idle
    /\ Len(decisions) < MaxDecisions
    /\ workers' = [workers EXCEPT ![w] =
                      [op |-> "engine", d |-> 0, act |-> NoAction,
                       dec |-> IF HasPending(decisions)
                               THEN <<>>
                               ELSE <<make_decision(FactorsOf(sub, now))>>]]
    /\ UNCHANGED graphVars
    /\ UNCHANGED <<f, result, now, sub, decisions, escalations>>

\* An engine run, second half: store the decision and its level-1
\* escalation.
EngineWrite(w) ==
    /\ workers[w].op = "engine"
    /\ IF workers[w].dec = <<>>
       THEN UNCHANGED <<decisions, escalations>>
       ELSE LET dec == workers[w].dec[1]
                d == Len(decisions) + 1
            IN /\ decisions' = InsertDecision(decisions, DecisionRow(dec, sub))
               /\ escalations' =
                     IF NeedsEscalation(dec)
                     THEN InsertEscalation(escalations, EscalationRow(d, 1, now))
                     ELSE escalations
    /\ workers' = [workers EXCEPT ![w] = Idle]
    /\ UNCHANGED graphVars
    /\ UNCHANGED <<f, result, now, sub>>

NextConc ==
    \/ TickConc
    \/ \E w \in Workers : EngineRead(w)
    \/ \E w \in Workers : EngineWrite(w)
    \/ \E w \in Workers, d \in DOMAIN decisions : AdvanceRead(w, d)
    \/ \E w \in Workers : AdvanceWrite(w)
    \/ \E i \in DOMAIN escalations, rtype \in ResponseType : Respond(i, rtype)

SpecConc == InitConc /\ [][NextConc]_vars

(***************************************************************************)
(* Claims about make_decision.                                             *)
(***************************************************************************)
\* The rule list as the claims state it: rule i's predicate ...
RuleMatches(i, x) ==
    CASE i = 1 -> x.keystone_score > 700
      [] i = 2 -> x.owner_active = FALSE
      [] i = 3 -> x.active_users = 0 /\ x.last_activity_days > 60
      [] i = 4 -> x.utilization_rate < 30 /\ x.paid_seats > 5
      [] i = 5 -> x.utilization_rate < 50
      [] i = 6 -> x.renewal_days < 30 /\ x.utilization_rate < 70
      [] i = 7 -> TRUE

\* ... and rule i's decision_type, confidence and risk.
RuleOutcome(i, x) ==
    CASE i = 1 -> <<KEEP, 9500, 9000>>
      [] i = 2 -> <<REVIEW, 8000, 5000>>
      [] i = 3 -> <<CANCEL, 8500, 2000 + 3 * x.keystone_score>>
      [] i = 4 -> <<DOWNSIZE, 7500, 3000>>
      [] i = 5 -> <<REVIEW, 6000, 4000>>
      [] i = 6 -> <<REVIEW, 6500, 3500>>
      [] i = 7 -> <<KEEP, 7000, 1000>>

FirstMatch(x) ==
    CHOOSE i \in 1..7 : RuleMatches(i, x) /\ \A j \in 1..(i - 1) : ~RuleMatches(j, x)

Returned == Len(result) = 1

\* C1: make_decision returns one Decision whose decision_type, confidence
\* and risk are those of the first rule, in the order 1..7, whose predicate
\* holds of the factors.
C1_FirstMatchWins ==
    Returned =>
        /\ result[1].type \in DecisionType
        /\ <<result[1].type, result[1].confidence, result[1].risk_score>>
               = RuleOutcome(FirstMatch(f), f)

\* C1 witness: factors matching rules 3, 4 and 5 at once, decided.
C1_Witness ==
    /\ Returned
    /\ FirstMatch(f) = 3
    /\ RuleMatches(4, f)
    /\ RuleMatches(5, f)

\* C2: a keystone tool (keystone_score > 0.7) gets KEEP with confidence
\* 0.95, risk 0.9 and savings 0, whatever the other factors are.
C2_KeystoneProtected ==
    (Returned /\ f.keystone_score > 700) =>
        /\ result[1].type = KEEP
        /\ result[1].confidence = 9500
        /\ result[1].risk_score = 9000
        /\ result[1].savings_potential = 0

\* C2 witness: a keystone tool with a departed owner, no usage for more
\* than 60 days and utilization under 0.3, decided.
C2_Witness ==
    /\ Returned
    /\ f.keystone_score > 700
    /\ ~f.owner_active
    /\ f.active_users = 0
    /\ f.last_activity_days > 60
    /\ f.utilization_rate < 30
    /\ f.paid_seats > 5

\* The inputs rule i's predicate reads.
RuleInputs(i) ==
    CASE i = 1 -> {"keystone_score"}
      [] i = 2 -> {"owner_active"}
      [] i = 3 -> {"active_users", "last_activity_days"}
      [] i = 4 -> {"utilization_rate", "paid_seats"}
      [] i = 5 -> {"utilization_rate"}
      [] i = 6 -> {"renewal_days", "utilization_rate"}
      [] i = 7 -> {}

\* C13: a DOWNSIZE decision recommends max(active_users + 2, 5) seats, a
\* number between active_users and paid_seats.
C13_DownsizeSeatsInRange ==
    (Returned /\ result[1].type = DOWNSIZE) =>
        /\ result[1].recommended_seats =
              (IF f.active_users + 2 >= 5 THEN f.active_users + 2 ELSE 5)
        /\ f.active_users <= result[1].recommended_seats
        /\ result[1].recommended_seats <= f.paid_seats

\* C13 witness: a DOWNSIZE decision whose recommendation is active_users + 2,
\* above the floor of 5.
C13_Witness ==
    /\ Returned
    /\ result[1].type = DOWNSIZE
    /\ result[1].recommended_seats > 5

\* C14: with a low keystone score and an active owner, factors that satisfy
\* rule 3 (zero usage) and rule 4 (severe underutilization) together give
\* CANCEL with recommended_seats unset, not DOWNSIZE.
C14_ZeroUsageBeforeDownsize ==
    (/\ Returned
     /\ f.keystone_score <= 700
     /\ f.owner_active
     /\ RuleMatches(3, f)
     /\ RuleMatches(4, f)) =>
        /\ result[1].type = CANCEL
        /\ result[1].recommended_seats = NULL

\* C14 witness: a decision for a tool above the seat threshold with no
\* active user for 90 days.
C14_Witness ==
    /\ Returned
    /\ f.keystone_score <= 700
    /\ f.owner_active
    /\ f.active_users = 0
    /\ f.last_activity_days = 90
    /\ f.paid_seats > 5
    /\ f.utilization_rate < 30

\* C15: every decision other than KEEP carries a non-empty factors dict
\* that names the inputs of the rule that produced it.
C15_NonKeepHasFactors ==
    (Returned /\ result[1].type # KEEP) =>
        /\ result[1].factors # {}
        /\ \E k \in RuleInputs(FirstMatch(f)) : k \in result[1].factors

\* C15 witness: a REVIEW decision produced by the renewal rule.
C15_Witness ==
    /\ Returned
    /\ result[1].type = REVIEW
    /\ FirstMatch(f) = 6

\* C16: low keystone score, active owner, some active user and utilization
\* of at least 0.7 give the default KEEP with confidence 0.7 for every
\* renewal_days, those under 30 included.
C16_WellUsedKept ==
    (/\ Returned
     /\ f.keystone_score <= 700
     /\ f.owner_active
     /\ f.active_users > 0
     /\ f.utilization_rate >= 70) =>
        /\ result[1].type = KEEP
        /\ result[1].confidence = 7000

\* C16 witness: a well used subscription that renews in 18 days, decided.
C16_Witness ==
    /\ Returned
    /\ f.keystone_score <= 700
    /\ f.owner_active
    /\ f.active_users > 0
    /\ f.utilization_rate >= 70
    /\ f.utilization_rate < 100
    /\ f.renewal_days = 18

\* r's risk is at most the double nearest the decimal bound (ten-thousandths).
RiskAtMost(r, bound) ==
    \/ r.risk_score < bound
    \/ r.risk_score = bound /\ r.risk_ulps <= 0

\* r's risk is at least the double nearest the decimal bound.
RiskAtLeast(r, bound) ==
    \/ r.risk_score > bound
    \/ r.risk_score = bound /\ r.risk_ulps >= 0

\* C17 as stated: a CANCEL decision saves the full annual_cost, its risk is
\* 0.2 + 0.3 * keystone_score and lies in [0.2, 0.41], and is 0.23 for a
\* keystone score of 0.1.
C17_CancelRiskInRange ==
    (Returned /\ result[1].type = CANCEL) =>
        /\ result[1].savings_potential = f.annual_cost
        /\ result[1].risk_score = 2000 + 3 * f.keystone_score
        /\ RiskAtLeast(result[1], 2000)
        /\ RiskAtMost(result[1], 4100)
        /\ f.keystone_score = 100 =>
              result[1].risk_score = 2300 /\ result[1].risk_ulps = 0

\* C17 amended: a CANCEL decision saves the full annual_cost and its risk is
\* the float sum 0.2 + keystone_score * 0.3: at least 0.2, within one unit
\* in the last place of the decimal value, hence at most
\* 0.41000000000000003, and 0.23 for a keystone score of 0.1.
C17_CancelRiskWithinRounding ==
    (Returned /\ result[1].type = CANCEL) =>
        /\ result[1].savings_potential = f.annual_cost
        /\ result[1].risk_score = 2000 + 3 * f.keystone_score
        /\ result[1].risk_ulps \in {-1, 0, 1}
        /\ RiskAtLeast(result[1], 2000)
        /\ result[1].risk_score <= 4100
        /\ f.keystone_score = 100 =>
              result[1].risk_score = 2300 /\ result[1].risk_ulps = 0

\* C17 witness: a CANCEL decision at the highest keystone score rule 1 lets
\* through, 0.7.
C17_Witness ==
    /\ Returned
    /\ result[1].type = CANCEL
    /\ f.keystone_score = 700
    /\ f.annual_cost > 0

\* C18: a negative renewal_days is decided like any other: when rules 1 to
\* 5 do not match and utilization is under 0.7 it matches rule 6 and gives
\* REVIEW with confidence 0.65.
C18_OverdueRenewalDecided ==
    (Returned /\ f.renewal_days < 0) =>
        /\ result[1].type \in DecisionType
        /\ ((\A i \in 1..5 : ~RuleMatches(i, f)) /\ f.utilization_rate < 70) =>
              /\ result[1].type = REVIEW
              /\ result[1].confidence = 6500

\* C18 witness: an overdue renewal at utilization between 0.5 and 0.7 that
\* no rule before rule 6 takes, decided.
C18_Witness ==
    /\ Returned
    /\ f.renewal_days < 0
    /\ \A i \in 1..5 : ~RuleMatches(i, f)
    /\ f.utilization_rate < 70

\* C19: with paid_seats = 0 the utilization rate is 0 and make_decision
\* returns a decision that is never DOWNSIZE.
C19_NoPaidSeatsDecided ==
    (Returned /\ f.paid_seats = 0) =>
        /\ f.utilization_rate = 0
        /\ result[1].type \in DecisionType \ {DOWNSIZE}

\* C19 witness: a subscription without paid seats but with active users,
\* decided by the moderate-underutilization rule.
C19_Witness ==
    /\ Returned
    /\ f.paid_seats = 0
    /\ f.active_users > 0
    /\ FirstMatch(f) = 5

\* C28: CANCEL is returned only for a subscription without active users,
\* without activity for more than 60 days, with an active owner and a
\* keystone score of at most 0.7.
C28_CancelOnlyOnZeroUsage ==
    (Returned /\ result[1].type = CANCEL) =>
        /\ f.active_users = 0
        /\ f.last_activity_days > 60
        /\ f.owner_active
        /\ f.keystone_score <= 700

\* C28 witness: a CANCEL decision for a subscription with paid seats, at the
\* first day count above 60.
C28_Witness ==
    /\ Returned
    /\ result[1].type = CANCEL
    /\ f.last_activity_days = 61
    /\ f.paid_seats > 0

(***************************************************************************)
(* Claims about the escalation state machine.                              *)
(***************************************************************************)
Escalated(d) == EscalationsOf(escalations, d) # {}

RowCount(escs, d) == Cardinality(EscalationsOf(escs, d))

\* What a call advance(d) made in the current state leaves in the tables.
DecisionsAfterAdvance(d) ==
    DecisionsAfter(AdvanceAction(d, decisions, escalations, sub, now), d, decisions)

EscalationsAfterAdvance(d) ==
    EscalationsAfter(AdvanceAction(d, decisions, escalations, sub, now), d,
                     escalations, now)

AdvanceIsNoOp(d) ==
    /\ DecisionsAfterAdvance(d) = decisions
    /\ EscalationsAfterAdvance(d) = escalations

\* The levels of every escalated decision are 1..k for some k in 1..4.
LevelsContiguous(escs) ==
    \A d \in DOMAIN decisions :
        EscalationsOf(escs, d) # {} =>
            /\ CurrentLevel(escs, d) \in 1..4
            /\ LevelsOf(escs, d) = 1..CurrentLevel(escs, d)

\* A step keeps every escalation row with its decision and level, and adds
\* at most one row, whose level is the one after the current maximum of its
\* decision (so that maximum never decreases and grows by one at a time).
LevelsStep ==
    LET n == Len(escalations)
    IN /\ Len(escalations') \in {n, n + 1}
       /\ \A i \in 1..n :
             /\ escalations'[i].level = escalations[i].level
             /\ escalations'[i].decision_id = escalations[i].decision_id
       /\ Len(escalations') = n + 1 =>
             escalations'[n + 1].level =
                CurrentLevel(escalations, escalations'[n + 1].decision_id) + 1

\* C3: after any sequence of decision creation, advance() calls and
\* responses, the levels of a decision's escalations are exactly 1..k with
\* 1 <= k <= 4; a step that creates an escalation creates level (maximum +
\* 1), and the maximum never decreases.
C3_LevelsInOrder == [][LevelsStep /\ LevelsContiguous(escalations')]_vars

\* C3 witness: a decision that went through all four levels.
C3_Witness ==
    \E d \in DOMAIN decisions : LevelsOf(escalations, d) = {1, 2, 3, 4}

\* The current level of d is unresponded and fewer than 3 days have passed
\* since it was sent (since it was scheduled, if never sent).
WithinWait(d) ==
    /\ Escalated(d)
    /\ LET cur == CurrentEscalation(escalations, d)
       IN /\ cur.level \in 1..3
          /\ cur.responded_at = NULL
          /\ now - (IF cur.sent_at # NULL THEN cur.sent_at ELSE cur.scheduled_at) < 3

C5_OneRowPerLevel ==
    \A i, j \in DOMAIN escalations :
        (/\ escalations[i].decision_id = escalations[j].decision_id
         /\ escalations[i].level = escalations[j].level) => i = j

\* C6: a level-4 escalation exists only if, on the day advance() created it,
\* amount_cents >= 500000 and renewal_days <= 7; and with level 3
\* unresponded and its wait elapsed, advance() creates nothing while either
\* condition fails.
C6_Level4OnlyIfEligible ==
    /\ \A i \in DOMAIN escalations :
          escalations[i].level = 4 =>
              /\ sub.amount_cents >= 500000
              /\ sub.renewal_date - escalations[i].scheduled_at <= 7
    /\ \A d \in DOMAIN decisions :
          (/\ Escalated(d)
           /\ CurrentLevel(escalations, d) = 3
           /\ ~(sub.amount_cents >= 500000 /\ sub.renewal_date - now <= 7))
          => /\ EscalationsAfterAdvance(d) = escalations
             /\ CurrentLevel(EscalationsAfterAdvance(d), d) = 3

\* C6 witness: a level-4 escalation of a decision that was held at level 3,
\* its renewal being more than 7 days away when the level-3 wait ended.
C6_Witness ==
    \E i, j \in DOMAIN escalations :
        /\ escalations[i].decision_id = escalations[j].decision_id
        /\ escalations[i].level = 4
        /\ escalations[j].level = 3
        /\ sub.renewal_date - (WaitStart(escalations[j]) + 3) > 7

\* C7: once a response is recorded on any escalation of a decision, no step
\* adds an escalation to that decision.
C7_ResponseStopsEscalation ==
    [][\A d \in DOMAIN decisions :
          (\E i \in EscalationsOf(escalations, d) :
              /\ escalations[i].responded_at # NULL
              /\ escalations[i].response_type # NoResponse)
          => /\ EscalationsAfterAdvance(d) = escalations
             /\ RowCount(escalations', d) = RowCount(escalations, d)]_vars

\* C7 witness: a response recorded on level 1 after level 2 was created, the
\* decision still pending and the level-2 wait period over.
C7_Witness ==
    \E d \in DOMAIN decisions :
        /\ decisions[d].status = PENDING
        /\ CurrentLevel(escalations, d) = 2
        /\ CurrentEscalation(escalations, d).responded_at = NULL
        /\ now - WaitStart(CurrentEscalation(escalations, d)) >= 3
        /\ now <= sub.renewal_date
        /\ \E i \in EscalationsOf(escalations, d) :
              escalations[i].level = 1 /\ escalations[i].responded_at # NULL

\* The renewal date has passed with d pending and no response recorded.
Overdue(d) ==
    /\ decisions[d].status = PENDING
    /\ ~HasResponse(escalations, d)
    /\ now > sub.renewal_date

\* C8: when the renewal date has passed with the decision pending and
\* unresponded, advance() sets its status to expired; no escalation is
\* created for an overdue or expired decision, and expired is final.
C8_ExpiryStopsEscalation ==
    [][\A d \in DOMAIN decisions :
          /\ Overdue(d) =>
                /\ DecisionsAfterAdvance(d) = [decisions EXCEPT ![d].status = EXPIRED]
                /\ EscalationsAfterAdvance(d) = escalations
          /\ (Overdue(d) \/ decisions[d].status = EXPIRED) =>
                RowCount(escalations', d) = RowCount(escalations, d)
          /\ decisions[d].status = EXPIRED => decisions'[d].status = EXPIRED]_vars

\* C8 witness: a decision expired on the day after the renewal date, which
\* is also the day its current level's wait period ended.
C8_Witness ==
    \E d \in DOMAIN decisions :
        /\ decisions[d].status = EXPIRED
        /\ now = sub.renewal_date + 1
        /\ Escalated(d)
        /\ CurrentEscalation(escalations, d).level < 4
        /\ now - WaitStart(CurrentEscalation(escalations, d)) = 3

\* C9: at most one decision of the subscription is pending.
C9_AtMostOnePending ==
    Cardinality({ d \in DOMAIN decisions : decisions[d].status = PENDING }) <= 1

\* An escalation is terminal once responded, superseded by a higher level
\* of its decision, or stopped by the decision's expiry.
NonTerminal(i) ==
    /\ escalations[i].responded_at = NULL
    /\ escalations[i].level = CurrentLevel(escalations, escalations[i].decision_id)
    /\ decisions[escalations[i].decision_id].status # EXPIRED

\* C10: every decision has at most one non-terminal escalation.
C10_OneNonTerminal ==
    \A d \in DOMAIN decisions :
        Cardinality({ i \in EscalationsOf(escalations, d) : NonTerminal(i) }) <= 1

\* A step that creates decision d creates, with it, exactly one escalation
\* for it, of level 1 and status pending, when d is not KEEP, and none when
\* d is KEEP.
CreationStep ==
    Len(decisions') > Len(decisions) =>
        LET d == Len(decisions')
            rows == EscalationsOf(escalations', d)
        IN /\ Len(decisions') = Len(decisions) + 1
           /\ decisions'[d].status = PENDING
           /\ IF decisions'[d].decision_type = KEEP
              THEN /\ rows = {}
                   /\ escalations' = escalations
              ELSE /\ Cardinality(rows) = 1
                   /\ Len(escalations') = Len(escalations) + 1
                   /\ \A i \in rows : /\ escalations'[i].level = 1
                                      /\ escalations'[i].status = PENDING

\* C20: creating a pending DOWNSIZE, REVIEW or CANCEL decision creates
\* exactly one level-1 escalation with status pending for it; creating a KEEP
\* decision creates none, and a KEEP decision never has an escalation.
C20_EscalationOnCreation ==
    [][/\ CreationStep
       /\ \A d \in DOMAIN decisions' :
             decisions'[d].decision_type = KEEP =>
                EscalationsOf(escalations', d) = {}]_vars

\* C20 witness: a decision that is not KEEP, just created, with its single
\* level-1 escalation pending.
C20_Witness ==
    /\ Len(decisions) = 1
    /\ decisions[1].decision_type \in {DOWNSIZE, REVIEW, CANCEL}
    /\ decisions[1].status = PENDING
    /\ Len(escalations) = 1
    /\ escalations[1].decision_id = 1
    /\ escalations[1].level = 1
    /\ escalations[1].status = PENDING

\* The response types recorded on the escalations of decision d.
ResponsesOf(d) ==
    { escalations[i].response_type :
        i \in { j \in EscalationsOf(escalations, d) :
                  escalations[j].responded_at # NULL } }

HeldAtLevel3(d) ==
    /\ decisions[d].status = PENDING
    /\ CurrentLevel(escalations, d) = 3
    /\ ~HasResponse(escalations, d)
    /\ now - WaitStart(CurrentEscalation(escalations, d)) >= 3

EscalationActive ==
    /\ Len(decisions) >= 1
    /\ decisions[1].decision_type # KEEP
    /\ decisions[1].status = PENDING
    /\ ~HasResponse(escalations, 1)

\* Escalation has stopped: a response was recorded, or the decision expired.
EscalationStopped ==
    /\ Len(decisions) >= 1
    /\ \/ HasResponse(escalations, 1)
       \/ decisions[1].status = EXPIRED

\* C30: under a scheduler that keeps calling advance() and a clock that keeps
\* advancing, every pending non-KEEP decision eventually has a response
\* recorded or is expired, and never has more than 4 escalation levels.
C30_EscalationTerminates ==
    /\ EscalationActive ~> EscalationStopped
    /\ [](\A d \in DOMAIN decisions :
             /\ Cardinality(EscalationsOf(escalations, d)) <= 4
             /\ LevelsOf(escalations, d) \subseteq 1..4)

\* The same for decisions on a subscription that has a renewal date.
DatedEscalationTerminates ==
    (EscalationActive /\ sub.renewal_date # NULL) ~> EscalationStopped

(***************************************************************************)
(* Dependency graph: the tool_dependency_impact view, a recursive CTE      *)
(* evaluated term by term as PostgreSQL does: the non-recursive term       *)
(* first, then the recursive term over the rows of the previous iteration  *)
(* until an iteration yields no row, then the final SELECT.  An edge is a  *)
(* tool_dependencies row reduced to (source_tool_id, target_tool_id);      *)
(* dependency_type and strength do not enter the join or the counts.       *)
(***************************************************************************)
Tools == 1..MaxTools

\* WHERE dc.depth < 5
MaxDepth == 5

Edge(source, target) == [source_tool_id |-> source, target_tool_id |-> target]

\* The tools that occur in the graph.
GraphTools(edges) ==
    { e.source_tool_id : e \in edges } \cup { e.target_tool_id : e \in edges }

\* Every graph of up to MaxEdges edges over the tools 1..MaxTools.
SmallGraphs ==
    { g \in SUBSET { Edge(s, t) : s \in Tools, t \in Tools } :
        Cardinality(g) <= MaxEdges }

\* The chain MaxChain -> ... -> 2 -> 1 (each tool depends on the one before
\* it), longer than the depth the traversal follows.
Chain == { Edge(i + 1, i) : i \in 1..(MaxChain - 1) }

\* The chain alone, and the chain with one more edge anywhere: a shortcut,
\* a back edge closing a cycle, or a self-loop.
ChainGraphs ==
    {Chain} \cup { Chain \cup {Edge(s, t)} : s \in 1..MaxChain, t \in 1..MaxChain }

Graphs == SmallGraphs \cup ChainGraphs

ChainRow(root, dependent, depth, path) ==
    [root_tool_id |-> root, dependent_tool_id |-> dependent,
     depth |-> depth, path |-> path]

\* td.source_tool_id != ALL(dc.path)
NotInPath(tool, path) == \A i \in DOMAIN path : path[i] # tool

\* The non-recursive term: one row per edge.
BaseTerm(edges) ==
    { ChainRow(td.target_tool_id, td.source_tool_id, 1, <<td.source_tool_id>>) :
        td \in edges }

\* The recursive term without the depth limit.
RecursiveTermNoDepthCap(edges, rows) ==
    { ChainRow(j[2].root_tool_id, j[1].source_tool_id, j[2].depth + 1,
               Append(j[2].path, j[1].source_tool_id)) :
        j \in { k \in edges \X rows :
                  /\ k[1].target_tool_id = k[2].dependent_tool_id
                  /\ NotInPath(k[1].source_tool_id, k[2].path) } }

\* The recursive term: tool_dependencies joined with the working table.
RecursiveTerm(edges, rows) ==
    { ChainRow(j[2].root_tool_id, j[1].source_tool_id, j[2].depth + 1,
               Append(j[2].path, j[1].source_tool_id)) :
        j \in { k \in edges \X rows :
                  /\ k[1].target_tool_id = k[2].dependent_tool_id
                  /\ NotInPath(k[1].source_tool_id, k[2].path)
                  /\ k[2].depth < MaxDepth } }

\* COUNT(*) in place of COUNT(DISTINCT dependent_tool_id).
TotalDependentsAllRows(rows, root) ==
    Cardinality({ r \in rows : r.root_tool_id = root })

\* COUNT(DISTINCT dependent_tool_id) ... GROUP BY root_tool_id
TotalDependents(rows, root) ==
    Cardinality({ r.dependent_tool_id : r \in { q \in rows : q.root_tool_id = root } })

\* A traversal whose maximum depth is left at the depth of the base rows.
MaxDepthOfBase(rows, root) == 1

\* MAX(depth) ... GROUP BY root_tool_id
MaxDepthOf(rows, root) ==
    SetMax({ r.depth : r \in { q \in rows : q.root_tool_id = root } })

\* The view's rows: tool_id -> (total_dependents, max_depth), one per root
\* in the chain.
ImpactView(rows) ==
    [ root \in { r.root_tool_id : r \in rows } |->
        [total_dependents |-> TotalDependents(rows, root),
         max_depth |-> MaxDepthOf(rows, root)] ]

InitGraph ==
    /\ f = NoSub
    /\ result = <<>>
    /\ now = 0
    /\ sub = NoSub
    /\ decisions = <<>>
    /\ escalations = <<>>
    /\ workers = <<>>
    /\ tool_dependencies \in Graphs
    /\ dependency_chain = {}
    /\ working = {}
    /\ iteration = 0
    /\ saas_tool = DefaultTool

EvalBase ==
    /\ iteration = 0
    /\ working' = BaseTerm(tool_dependencies)
    /\ dependency_chain' = BaseTerm(tool_dependencies)
    /\ iteration' = 1
    /\ UNCHANGED <<f, result, now, sub, decisions, escalations, workers,
                   tool_dependencies, saas_tool>>

EvalRecursive ==
    /\ iteration >= 1
    /\ working # {}
    /\ working' = RecursiveTerm(tool_dependencies, working)
    /\ dependency_chain' = dependency_chain \cup working'
    /\ iteration' = iteration + 1
    /\ UNCHANGED <<f, result, now, sub, decisions, escalations, workers,
                   tool_dependencies, saas_tool>>

\* The recursion has ended (an iteration produced no row): the final SELECT.
SelectImpact ==
    /\ iteration >= 1
    /\ working = {}
    /\ result = <<>>
    /\ result' = <<ImpactView(dependency_chain)>>
    /\ UNCHANGED <<f, now, sub, decisions, escalations, workers>>
    /\ UNCHANGED graphVars

NextGraph == EvalBase \/ EvalRecursive \/ SelectImpact

\* The database evaluates a query it has started to the end.
SpecGraph == InitGraph /\ [][NextGraph]_vars /\ WF_vars(NextGraph)

(***************************************************************************)
(* Claims about the dependency graph.                                      *)
(***************************************************************************)
\* The traversal has returned its rows.
Traversed == result # <<>>

\* C11: on every finite edge set, cyclic ones included, the impact
\* traversal terminates, and every total_dependents it returns is at most the
\* number of distinct tools in the graph.
C11_TraversalTerminates ==
    /\ <>Traversed
    /\ [](Traversed =>
            \A root \in DOMAIN result[1] :
                result[1][root].total_dependents
                    <= Cardinality(GraphTools(tool_dependencies)))

\* The traversal of a graph with the cycle 1 -> 2 -> 1 has returned, and a
\* tool of the cycle counts itself among its dependents.
C11_Witness ==
    /\ Traversed
    /\ {Edge(1, 2), Edge(2, 1)} \subseteq tool_dependencies
    /\ result[1][1].total_dependents >= 2

\* The tools the traversal counts as dependents of root.
DependentsOf(root) ==
    { r.dependent_tool_id : r \in { q \in dependency_chain : q.root_tool_id = root } }

NoSelfLoop == \A e \in tool_dependencies : e.source_tool_id # e.target_tool_id

\* C22: in a graph without self-loops, cycles through X included, X is
\* never one of the dependents counted in its own total_dependents.
C22_NotOwnDependent ==
    (Traversed /\ NoSelfLoop) =>
        \A root \in DOMAIN result[1] :
            /\ root \notin DependentsOf(root)
            /\ result[1][root].total_dependents
                  = Cardinality(DependentsOf(root) \ {root})

\* The tools with a reverse-dependency walk of exactly k edges to X.
RECURSIVE WalkSources(_, _)
WalkSources(X, k) ==
    IF k = 0 THEN {X}
    ELSE { e.source_tool_id :
             e \in { d \in tool_dependencies :
                       d.target_tool_id \in WalkSources(X, k - 1) } }

\* The tools whose shortest reverse-dependency path to X has at most 5 edges.
Within5(X) == UNION { WalkSources(X, k) : k \in 1..5 }

\* C23: the traversal follows at most 5 edges from X: max_depth is at most
\* 5, and a tool whose shortest reverse-dependency path to X has 6 or more
\* edges is not among the dependents counted, with or without cycles.
C23_DepthCapped ==
    Traversed =>
        \A root \in DOMAIN result[1] :
            /\ result[1][root].max_depth <= 5
            /\ \A r \in dependency_chain : r.depth <= 5
            /\ DependentsOf(root) \subseteq Within5(root)

\* C23 witness: the traversal of a graph with a cycle in which a tool is 6
\* edges away from tool 1 has returned max_depth 5 for tool 1.
C23_Witness ==
    /\ Traversed
    /\ Chain \subseteq tool_dependencies
    /\ Edge(2, 5) \in tool_dependencies
    /\ 7 \notin Within5(1)
    /\ result[1][1].max_depth = 5
    /\ result[1][1].total_dependents = 5

\* The cycle-free reverse-dependency paths to X of k edges, each the
\* sequence of its tools from X outwards.
RECURSIVE SimplePaths(_, _)
SimplePaths(X, k) ==
    IF k = 0 THEN {<<X>>}
    ELSE { Append(pe[1], pe[2].source_tool_id) :
             pe \in { q \in SimplePaths(X, k - 1) \X tool_dependencies :
                        /\ q[2].target_tool_id = q[1][Len(q[1])]
                        /\ NotInPath(q[2].source_tool_id, q[1]) } }

\* The tools with a cycle-free reverse-dependency path to X of 1 to 5 edges.
SimpleDependents(X) ==
    { p[Len(p)] : p \in UNION { SimplePaths(X, k) : k \in 1..5 } }

\* C24: total_dependents of X is the number of distinct tools with a
\* cycle-free reverse-dependency path to X of 1 to 5 edges; a tool reached
\* by two routes counts once, and a route is not pruned because another
\* route visited one of its tools.
C24_CountsSimplePaths ==
    (Traversed /\ NoSelfLoop) =>
        \A root \in DOMAIN result[1] :
            result[1][root].total_dependents = Cardinality(SimpleDependents(root))

(***************************************************************************)
(* Keystone score: the query of docs/ENTERPRISE_ARCHITECTURE.md.  The      *)
(* score is kept as the exact fraction num / den; SQL NULL is the fraction *)
(* with both parts NULL.                                                   *)
(***************************************************************************)
KeystoneNull == [num |-> NULL, den |-> NULL]

\* The query reads, for one tool, its distinct users (user_count) and
\* dependents (dependent_tools) and the organisation's totals
\* max_users.total and max_deps.total: the fields of its input c.
\* (user_count / NULLIF(max_users.total, 0)) * 0.4 +
\* (dependent_tools / NULLIF(max_deps.total, 0)) * 0.6 :
\* NULLIF turns a zero total into NULL, and NULL propagates through the
\* division, the products and the sum.
keystone_score(c) ==
    IF c.max_users = 0 \/ c.max_deps = 0
    THEN KeystoneNull
    ELSE [num |-> 4 * c.user_count * c.max_deps + 6 * c.dependent_tools * c.max_users,
          den |-> 10 * c.max_users * c.max_deps]

\* A tool's counts never exceed the organisation's totals.
KeystoneInputs ==
    { c \in [user_count : 0..MaxCount, dependent_tools : 0..MaxCount,
             max_users : 0..MaxCount, max_deps : 0..MaxCount] :
        c.user_count <= c.max_users /\ c.dependent_tools <= c.max_deps }

InitKeystone ==
    /\ f \in KeystoneInputs
    /\ result = <<>>
    /\ now = 0
    /\ sub = NoSub
    /\ decisions = <<>>
    /\ escalations = <<>>
    /\ workers = <<>>
    /\ NoGraph

\* The query computes the score of one tool.
ComputeKeystone ==
    /\ result = <<>>
    /\ result' = <<keystone_score(f)>>
    /\ UNCHANGED graphVars
    /\ UNCHANGED <<f, now, sub, decisions, escalations, workers>>

NextKeystone == ComputeKeystone

SpecKeystone == InitKeystone /\ [][NextKeystone]_vars

\* C12: for non-negative counts the keystone score is a value in [0,1],
\* never NULL / undefined; a ratio over a zero total counts as 0, so an
\* organisation with zero users and zero dependents scores 0.
C12_KeystoneInUnitInterval ==
    \A i \in DOMAIN result :
        /\ result[i] # KeystoneNull
        /\ 0 <= result[i].num
        /\ result[i].num <= result[i].den
        /\ (f.max_users = 0 /\ f.max_deps = 0) => result[i].num = 0

(***************************************************************************)
(* Insertions into tool_dependencies.  The table is the sequence of its    *)
(* rows, each with its own id, so that only the table's constraints keep   *)
(* two rows from carrying the same values.                                 *)
(***************************************************************************)
\* dependency_type: two of sso, integration, data_flow, workflow, embed.
DependencyTypes == {"sso", "integration"}

DependencyRow(source, target, type) ==
    [source_tool_id |-> source, target_tool_id |-> target, dependency_type |-> type]

INSERTED == "inserted"
UNIQUE_VIOLATION == "unique_violation"

\* UNIQUE(source_tool_id, target_tool_id, dependency_type): the only
\* constraint of the table on the three columns besides NOT NULL and the
\* foreign keys.
ViolatesUnique(rows, row) ==
    \E i \in DOMAIN rows :
        /\ rows[i].source_tool_id = row.source_tool_id
        /\ rows[i].target_tool_id = row.target_tool_id
        /\ rows[i].dependency_type = row.dependency_type

InitInsert ==
    /\ f = NoSub
    /\ result = <<>>
    /\ now = 0
    /\ sub = NoSub
    /\ decisions = <<>>
    /\ escalations = <<>>
    /\ workers = <<>>
    /\ tool_dependencies = <<>>
    /\ dependency_chain = {}
    /\ working = {}
    /\ iteration = 0
    /\ saas_tool = DefaultTool

\* INSERT INTO tool_dependencies: the row is stored unless a constraint of
\* the table rejects it; result holds the outcome of the last statement.
InsertDependency(source, target, type) ==
    /\ Len(tool_dependencies) < MaxRows
    /\ LET row == DependencyRow(source, target, type)
       IN IF ViolatesUnique(tool_dependencies, row)
          THEN /\ result' = <<UNIQUE_VIOLATION>>
               /\ UNCHANGED tool_dependencies
          ELSE /\ result' = <<INSERTED>>
               /\ tool_dependencies' = Append(tool_dependencies, row)
    /\ UNCHANGED <<f, now, sub, decisions, escalations, workers,
                   dependency_chain, working, iteration, saas_tool>>

NextInsert ==
    \E source \in Tools, target \in Tools, type \in DependencyTypes :
        InsertDependency(source, target, type)

SpecInsert == InitInsert /\ [][NextInsert]_vars

\* C25: after any sequence of insertions tool_dependencies holds no edge
\* from a tool to itself and no two edges with the same source, target and
\* dependency_type.
C25_NoSelfLoopNoDuplicate ==
    /\ \A i \in DOMAIN tool_dependencies :
          tool_dependencies[i].source_tool_id # tool_dependencies[i].target_tool_id
    /\ \A i, j \in DOMAIN tool_dependencies :
          tool_dependencies[i] = tool_dependencies[j] => i = j

(***************************************************************************)
(* Keystone recomputation: the batch job stores the score of the keystone  *)
(* query in saas_tools.keystone_score and sets saas_tools.is_keystone; the *)
(* decision engine then reads the stored score.                            *)
(***************************************************************************)
\* The flag set for a score of at least 0.7.
IsKeystoneAtLeast(score) ==
    score # KeystoneNull /\ 10 * score.num >= 7 * score.den

\* is_keystone: keystone_score > 0.7; not true for a NULL score.
IsKeystone(score) ==
    score # KeystoneNull /\ 10 * score.num > 7 * score.den

RecomputedTool(c) ==
    [is_keystone |-> IsKeystone(keystone_score(c)),
     keystone_score |-> keystone_score(c)]

\* The stored score as make_decision reads it, in thousandths rounded up,
\* which keeps every comparison with a whole number of thousandths exact.
Thousandths(score) == (1000 * score.num + score.den - 1) \div score.den

\* The other factors of the tool's subscription.
ToolFactors ==
    { DecisionFactors(a, 8, l, r, 120000, 0, 0, o) :
        a \in {0, 2, 8}, l \in {5, 90}, r \in {18, 30}, o \in BOOLEAN }

InitRecompute ==
    /\ f = NoSub
    /\ result = <<>>
    /\ now = 0
    /\ sub = NoSub
    /\ decisions = <<>>
    /\ escalations = <<>>
    /\ workers = <<>>
    /\ NoGraph

\* The batch recomputes the tool's score from the organisation's counts.
RecomputeKeystone ==
    /\ result = <<>>
    /\ \E c \in KeystoneInputs : saas_tool' = RecomputedTool(c)
    /\ UNCHANGED <<f, result, now, sub, decisions, escalations, workers,
                   tool_dependencies, dependency_chain, working, iteration>>

\* The engine decides the tool's subscription with the stored score.
DecideTool ==
    /\ result = <<>>
    /\ saas_tool.keystone_score # KeystoneNull
    /\ \E x \in ToolFactors :
          f' = [x EXCEPT !.keystone_score = Thousandths(saas_tool.keystone_score)]
    /\ result' = <<make_decision(f')>>
    /\ UNCHANGED <<now, sub, decisions, escalations, workers>>
    /\ UNCHANGED graphVars

NextRecompute == RecomputeKeystone \/ DecideTool

SpecRecompute == InitRecompute /\ [][NextRecompute]_vars

\* C26: after every recomputation is_keystone is true exactly when
\* keystone_score > 0.7, and make_decision on the subscription of a tool
\* with is_keystone = true returns KEEP.
C26_FlagMatchesRule1 ==
    /\ saas_tool.is_keystone <=>
          (/\ saas_tool.keystone_score # KeystoneNull
           /\ 10 * saas_tool.keystone_score.num > 7 * saas_tool.keystone_score.den)
    /\ (Returned /\ saas_tool.is_keystone) => result[1].type = KEEP
    /\ (Returned /\ result[1].confidence = 9500) => saas_tool.is_keystone

\* C26 witness: a keystone tool without usage whose owner has left, decided.
C26_Witness ==
    /\ Returned
    /\ saas_tool.is_keystone
    /\ ~f.owner_active
    /\ f.active_users = 0
    /\ f.last_activity_days = 90

(***************************************************************************)
(* Renewal urgency: getRenewalUrgency of the subscriptions page and the    *)
(* renewal_urgency column of subscription_health.  days_until_renewal is a *)
(* sequence: empty for null / undefined / SQL NULL, else its one number.   *)
(***************************************************************************)
UI_NONE == "null"
UI_URGENT == "Urgent"
UI_SOON == "Soon"
UI_UPCOMING == "Upcoming"

\* if (!days) return null: null, undefined and 0 are falsy.
getRenewalUrgency(days) ==
    IF days = <<>> \/ days = <<0>> THEN UI_NONE
    ELSE IF days[1] <= 7 THEN UI_URGENT
    ELSE IF days[1] <= 30 THEN UI_SOON
    ELSE IF days[1] <= 60 THEN UI_UPCOMING
    ELSE UI_NONE

\* CASE WHEN s.renewal_date <= CURRENT_DATE + 7 ... with days =
\* renewal_date - CURRENT_DATE; a comparison with NULL is not true, so a NULL
\* renewal_date falls to ELSE.
renewal_urgency(days) ==
    IF days = <<>> THEN "ok"
    ELSE IF days[1] <= 7 THEN "urgent"
    ELSE IF days[1] <= 30 THEN "soon"
    ELSE IF days[1] <= 60 THEN "upcoming"
    ELSE "ok"

UrgencyInputs == {<<>>} \cup { <<n>> : n \in (0 - MaxUrgencyDays)..MaxUrgencyDays }

InitUrgency ==
    /\ f \in UrgencyInputs
    /\ result = <<>>
    /\ now = 0
    /\ sub = NoSub
    /\ decisions = <<>>
    /\ escalations = <<>>
    /\ workers = <<>>
    /\ NoGraph

\* The page renders a subscription_health row.
ClassifyUrgency ==
    /\ result = <<>>
    /\ result' = <<[ui |-> getRenewalUrgency(f), view |-> renewal_urgency(f)]>>
    /\ UNCHANGED graphVars
    /\ UNCHANGED <<f, now, sub, decisions, escalations, workers>>

NextUrgency == ClassifyUrgency

SpecUrgency == InitUrgency /\ [][NextUrgency]_vars

\* The view's class that a badge of the page stands for.
ClassOfBadge(badge) ==
    CASE badge = UI_URGENT -> "urgent"
      [] badge = UI_SOON -> "soon"
      [] badge = UI_UPCOMING -> "upcoming"
      [] badge = UI_NONE -> "ok"

\* C29: for every days_until_renewal the page's getRenewalUrgency gives the
\* class of the view's renewal_urgency; a renewal due today is urgent in both.
C29_UrgencyAgrees ==
    \A i \in DOMAIN result :
        /\ ClassOfBadge(result[i].ui) = result[i].view
        /\ f = <<0>> => result[i].ui = UI_URGENT /\ result[i].view = "urgent"

====
